---- MODULE Spec2Model ----
(***************************************************************************)
(* sem: shared-expense ledger.  The ledger is read one record per line     *)
(* (main / process_line); each record is dispatched to process_start,      *)
(* process_stop, process_pause, process_resume, process_transfer,          *)
(* process_buy or process_pay.  State is the person registry (gdb, g_len), *)
(* the two interval stores (pdbs: presence, npdbs: obligation) and the     *)
(* debt graph (gedb).  The stores are Berkeley DB primaries keyed by       *)
(* (min, who) with a secondary index ordered by who; a store is modelled   *)
(* as the sequence of its records in the order of that secondary index.    *)
(***************************************************************************)
EXTENDS Integers, Sequences, FiniteSets, TLC

VARIABLES gdb, g_len, pdbs, npdbs, gedb, status, ledger, out, op_type_str, nlines,
          insert, finished

vars == <<gdb, g_len, pdbs, npdbs, gedb, status, ledger, out, op_type_str, nlines,
          insert, finished>>

\* ------------------------------------------------------------------ bounds
\* the dates of the records run over 0..MaxDate, the ends of a bill's window
\* over 0..MaxTime
MaxDate == 1
MaxTime == 2
MaxRecords == 4
\* the records of the longer ledgers, which hold START, PAUSE, RESUME and PAY
\* records only
MaxLong == 5
\* by how much the date of a record may lie before the date of the one before
MaxBack == 0

\* the nicknames of the ledger, in the order in which they first appear
NickOrder == <<"al", "bo", "cy">>
Nicks == {NickOrder[i] : i \in 1..Len(NickOrder)}
Dates == 0..MaxDate
Times == 0..MaxTime
Amounts == {3, 4}

\* --------------------------------------------------------------- constants
PAYER_TIP == 1
\* tinf and mtinf are LONG_MAX and LONG_MIN, the two ends of time_t; they are
\* written here as the two ends of the integers of the model
tinf == 2147483647
mtinf == -2147483647
\* (unsigned) -1
g_notfound == -1

NoRec == [op |-> "none", who |-> "", to |-> "", ts |-> 0, v |-> 0, w0 |-> 0, w1 |-> 0]

\* ------------------------------------------------------------ sequences
InsertAt(s, i, r) == SubSeq(s, 1, i - 1) \o <<r>> \o SubSeq(s, i, Len(s))

RemoveAt(s, i) == SubSeq(s, 1, i - 1) \o SubSeq(s, i + 1, Len(s))

\* C integer division truncates toward zero
CDiv(a, b) ==
  IF (a >= 0) = (b > 0) \/ a = 0
  THEN (IF a >= 0 THEN a ELSE -a) \div (IF b > 0 THEN b ELSE -b)
  ELSE -((IF a >= 0 THEN a ELSE -a) \div (IF b > 0 THEN b ELSE -b))

\* ------------------------------------------------------------- registry
\* g_find giving the id 0 for a nickname that is not registered
g_find_zero(name) == IF name \in DOMAIN gdb THEN gdb[name] ELSE 0

g_find(name) == IF name \in DOMAIN gdb THEN gdb[name] ELSE g_notfound

\* gdb->put overwrites an existing key; the id is g_len, post-incremented
g_insert(name) == [n \in (DOMAIN gdb) \cup {name} |-> IF n = name THEN g_len ELSE gdb[n]]

\* gi_get: the nickname bound to the id, read off the secondary index igdb
\* over the registry; "" where no record of the registry carries the id (the
\* pget fails and CBUG ends the run)
gi_get(id) ==
  IF \E n \in DOMAIN gdb : gdb[n] = id
  THEN CHOOSE n \in DOMAIN gdb : gdb[n] = id
  ELSE ""

\* ----------------------------------------------------------- debt graph
ge_key(id0, id1) == IF id0 > id1 THEN <<id1, id0>> ELSE <<id0, id1>>

\* ge_get without the sign flip of the id0 > id1 branch
ge_get_unsigned(g, id0, id1) ==
  IF ge_key(id0, id1) \notin DOMAIN g THEN 0 ELSE g[ge_key(id0, id1)]

ge_get(g, id0, id1) ==
  IF ge_key(id0, id1) \notin DOMAIN g THEN 0
  ELSE IF id0 > id1 THEN -g[ge_key(id0, id1)] ELSE g[ge_key(id0, id1)]

ge_put(g, k, value) == [x \in (DOMAIN g) \cup {k} |-> IF x = k THEN value ELSE g[x]]

\* ge_add writing cvalue + value in both branches
ge_add_oneway(g, id_from, id_to, value) ==
  ge_put(g, ge_key(id_from, id_to), ge_get(g, id_from, id_to) + value)

\* ge_add that writes the value over the cell without reading it
ge_add_fresh(g, id_from, id_to, value) ==
  ge_put(g, ge_key(id_from, id_to), IF id_from > id_to THEN -value ELSE value)

ge_add(g, id_from, id_to, value) ==
  LET cvalue == ge_get(g, id_from, id_to)
  IN IF id_from > id_to
     THEN ge_put(g, ge_key(id_from, id_to), -cvalue - value)
     ELSE ge_put(g, ge_key(id_from, id_to), cvalue + value)

\* ge_show: the line printed for the cell under the key k, the debtor first
ge_show_line(g, k) ==
  IF g[k] > 0
  THEN [debtor |-> gi_get(k[2]), creditor |-> gi_get(k[1]), cents |-> g[k]]
  ELSE [debtor |-> gi_get(k[1]), creditor |-> gi_get(k[2]), cents |-> -g[k]]

\* ge_show: the cells the cursor stops at with a value other than zero
ge_show_cells(g) == {k \in DOMAIN g : g[k] # 0}

\* the first of the keys in the order of the ids (the cursor of the hash
\* gives them in an order of its own, which no line depends on)
ge_show_first(cells) ==
  CHOOSE k \in cells : \A x \in cells : k[1] < x[1] \/ (k[1] = x[1] /\ k[2] <= x[2])

\* ge_show: cell by cell; a cell of an id that has no nickname ends the run
\* in gi_get with the lines before it printed
RECURSIVE ge_show_walk(_, _, _)
ge_show_walk(g, cells, lines) ==
  IF cells = {} THEN [ok |-> TRUE, lines |-> lines]
  ELSE IF gi_get(ge_show_first(cells)[1]) = "" \/ gi_get(ge_show_first(cells)[2]) = ""
       THEN [ok |-> FALSE, lines |-> lines]
  ELSE ge_show_walk(g, cells \ {ge_show_first(cells)},
                    Append(lines, ge_show_line(g, ge_show_first(cells))))

ge_show(g) == ge_show_walk(g, ge_show_cells(g), <<>>)

\* ------------------------------------------------------ interval stores
\* A store record: the primary key (kmin, kwho) and the struct ti it holds.
TiRec(kmin, kwho, ti) ==
  [kmin |-> kmin, kwho |-> kwho, min |-> ti.min, max |-> ti.max, who |-> ti.who]

\* tiid_cmp: position after the last record whose who is <= w (duplicates of
\* a secondary key are kept in insertion order)
tiid_end(s, w) == Cardinality({i \in 1..Len(s) : s[i].who <= w}) + 1

\* DB->put on the primary: a new key is added, an existing key has its data
\* replaced; the who index entry moves only if the who of the data changes.
db_put(s, kmin, kwho, ti) ==
  LET hits == {i \in 1..Len(s) : s[i].kmin = kmin /\ s[i].kwho = kwho}
      r == TiRec(kmin, kwho, ti)
  IN IF hits = {}
     THEN InsertAt(s, tiid_end(s, ti.who), r)
     ELSE LET i == CHOOSE i \in hits : TRUE
          IN IF s[i].who = ti.who
             THEN [s EXCEPT ![i] = r]
             ELSE InsertAt(RemoveAt(s, i), tiid_end(RemoveAt(s, i), ti.who), r)

\* ti_insert leaving every interval open, whatever the end it is given
ti_insert_open(s, id, start, end) ==
  db_put(s, start, id, [min |-> start, max |-> tinf, who |-> id])

ti_insert(s, id, start, end) ==
  db_put(s, start, id, [min |-> start, max |-> end, who |-> id])

\* what an uninitialised struct ti may hold
GarbageTi(end) == {[min |-> m, max |-> end, who |-> w] : m \in Dates, w \in 0..g_len}

\* ti_finish_last: a cursor on the who index walks the records of id, copying
\* each into ti, until DB_NEXT leaves the id (cursor on the next record) or
\* fails at the end of the index (cursor stays on the last record).  Then
\* c_pget(DB_PREV) steps one record back and ti, with max = end, is put under
\* the primary key found there.  The result is the set of possible outcomes.
ti_finish_last(s, id, end) ==
  LET own == {i \in 1..Len(s) : s[i].who = id}
  IN IF own = {}
     THEN IF Len(s) = 0
          THEN {[ok |-> FALSE, db |-> s]}
          ELSE {[ok |-> TRUE, db |-> db_put(s, s[Len(s)].kmin, s[Len(s)].kwho, ti)] :
                  ti \in GarbageTi(end)}
     ELSE LET hi == CHOOSE i \in own : \A j \in own : j <= i
              ti == [min |-> s[hi].min, max |-> end, who |-> s[hi].who]
              at == IF hi < Len(s) THEN hi ELSE hi - 1
          IN IF at = 0
             THEN {[ok |-> FALSE, db |-> s]}
             ELSE {[ok |-> TRUE, db |-> db_put(s, s[at].kmin, s[at].kwho, ti)]}

\* stable insertion sort of a sequence of <<key, item>> by ascending key
RECURSIVE SortKeyed(_)
SortKeyed(s) ==
  IF Len(s) <= 1 THEN s
  ELSE LET rest == SortKeyed(Tail(s))
           h == Head(s)
           k == Cardinality({i \in 1..Len(rest) : rest[i][1] < h[1]})
       IN InsertAt(rest, k + 1, h)

Items(s) == [i \in 1..Len(s) |-> s[i][2]]

\* the max index is opened with tiid_cmp, which reads a key as an unsigned:
\* the low word of the time_t (0 for mtinf, all ones for tinf)
timax_key(t) == IF t = mtinf THEN 0 ELSE t

tidbs_max(s) == Items(SortKeyed([i \in 1..Len(s) |-> <<timax_key(s[i].max), s[i]>>]))

\* the struct ti of a record of a store
ti_data(r) == [min |-> r.min, max |-> r.max, who |-> r.who]

\* ti_intersect copies the data of the records it keeps into matches
ti_matches(kept) == [i \in 1..Len(kept) |-> ti_data(kept[i])]

\* ti_intersect with the cursor set after the keys equal to start_ts
ti_intersect_idx_after(idx, start_ts, end_ts) ==
  ti_matches(
    SelectSeq(SubSeq(idx,
                     Cardinality({i \in 1..Len(idx) :
                                    timax_key(idx[i].max) <= timax_key(start_ts)}) + 1,
                     Len(idx)),
              LAMBDA r : r.max >= start_ts /\ r.min < end_ts))

\* ti_intersect on the max index idx: DB_SET_RANGE at start_ts, then DB_NEXT
\* to the end, keeping the records with max >= start_ts and min < end_ts
ti_intersect_idx(idx, start_ts, end_ts) ==
  ti_matches(
    SelectSeq(SubSeq(idx,
                     Cardinality({i \in 1..Len(idx) :
                                    timax_key(idx[i].max) < timax_key(start_ts)}) + 1,
                     Len(idx)),
              LAMBDA r : r.max >= start_ts /\ r.min < end_ts))

ti_intersect(s, start_ts, end_ts) == ti_intersect_idx(tidbs_max(s), start_ts, end_ts)

ti_pintersect(s, ts) == ti_intersect(s, ts, ts)

\* process_pay's adjustment of the matches to the query interval
matches_fix(matches, start_ts, end_ts) ==
  [i \in 1..Len(matches) |->
     [min |-> IF matches[i].min < start_ts THEN start_ts ELSE matches[i].min,
      max |-> IF matches[i].max > end_ts THEN end_ts ELSE matches[i].max,
      who |-> matches[i].who]]

\* ----------------------------------------------------------------- sweep
\* the two events of every match: (min, 0, who) and (max, 1, who)
ti_split_i(matches) ==
  [i \in 1..(2 * Len(matches)) |->
     IF i % 2 = 1
     THEN [ts |-> matches[(i + 1) \div 2].min, max |-> 0, who |-> matches[(i + 1) \div 2].who]
     ELSE [ts |-> matches[i \div 2].max, max |-> 1, who |-> matches[i \div 2].who]]

\* ti_split_i_cmp: by ts, then by the max flag (an opening before a closing)
ti_split_i_cmp(ev) == Items(SortKeyed([i \in 1..Len(ev) |-> <<2 * ev[i].ts + ev[i].max, ev[i]>>]))

\* the loop of ti_split over the events before the closings at the last
\* timestamp; who_remove of an absent person trips its CBUG
RECURSIVE ti_split_walk(_, _, _, _, _)
ti_split_walk(ev, i, n, who, acc) ==
  IF i > n THEN [ok |-> TRUE, who |-> who, splits |-> acc]
  ELSE IF ev[i].max = 1 /\ ev[i].who \notin who THEN [ok |-> FALSE, who |-> who, splits |-> acc]
  ELSE LET w2 == IF ev[i].max = 1 THEN who \ {ev[i].who} ELSE who \cup {ev[i].who}
           acc2 == IF ev[i].ts = ev[i + 1].ts THEN acc
                   ELSE Append(acc, [min |-> ev[i].ts, max |-> ev[i + 1].ts, who |-> w2])
       IN ti_split_walk(ev, i + 1, n, w2, acc2)

\* The closings at the last timestamp compare equal, so qsort may leave them
\* in any order, and the loop stops before the last event: all but one of
\* them, any one, are applied.  The result is whether who_remove can succeed
\* on all of them, and whether it can fail.
ti_split_tail(closing, who) ==
  {(\A i \in (1..Len(closing)) \ {skip} :
       /\ closing[i] \in who
       /\ \A j \in (1..Len(closing)) \ {skip, i} : closing[j] # closing[i]) :
     skip \in 1..Len(closing)}

\* what ti_split returns: the splits, and whether the run went through
ti_split_result(head, closing) ==
  [oks |-> IF head.ok THEN ti_split_tail(closing, head.who) ELSE {FALSE},
   splits |-> head.splits]

\* ti_split from the loop on: the events before the closings at the last
\* timestamp are walked, then all but one of these closings
ti_split_loop(ev, n) ==
  ti_split_result(ti_split_walk(ev, 1, n, {}, <<>>), [i \in 1..(Len(ev) - n) |-> ev[n + i].who])

\* ti_split from the qsort on: ev is the sorted event array
ti_split_sorted(ev) ==
  ti_split_loop(ev, Len(ev) - Cardinality({i \in 1..Len(ev) :
                                             ev[i].ts = ev[Len(ev)].ts /\ ev[i].max = 1}))

\* With no match the loop bound 2 * matches_l - 1 wraps (size_t) and the loop
\* runs off the empty event array: the run ends abnormally.
ti_split(matches) ==
  IF Len(matches) = 0 THEN [oks |-> {FALSE}, splits |-> <<>>]
  ELSE ti_split_sorted(ti_split_i_cmp(ti_split_i(matches)))

splits_get(s, min, max) == ti_split(matches_fix(ti_intersect(s, min, max), min, max))

\* -------------------------------------------------------------- gap fill
NoSplits == [oks |-> {TRUE}, splits |-> <<>>]

RECURSIVE splits_concat(_, _)
splits_concat(parts, i) ==
  IF i > Len(parts) THEN <<>> ELSE parts[i].splits \o splits_concat(parts, i + 1)

\* the results of a sequence of sweeps: all of them went through, or one failed
RECURSIVE splits_oks(_, _)
splits_oks(parts, i) ==
  IF i > Len(parts) THEN {TRUE}
  ELSE {x /\ y : x \in parts[i].oks, y \in splits_oks(parts, i + 1)}

\* the loop of splits_fill: every split of the queue nobody is in is replaced
\* by the splits of the obligation store o on its range
splits_fill_each(o, queue) ==
  [i \in 1..Len(queue) |->
     IF queue[i].who = {}
     THEN splits_get(o, queue[i].min, queue[i].max)
     ELSE [oks |-> {TRUE}, splits |-> <<queue[i]>>]]

\* the queue splits_fill leaves
splits_fill_queue(first, each, rest) ==
  [oks |-> splits_oks(<<first>> \o each \o <<rest>>, 1),
   splits |-> splits_concat(each, 1) \o rest.splits]

\* splits_fill with first, the splits put before the first split, and rest,
\* the splits put after the last one
splits_fill_gaps(o, first, splits, rest) ==
  splits_fill_queue(first, splits_fill_each(o, first.splits \o splits), rest)

\* splits_fill: the range before the first split of the presence store is
\* filled with the splits of the obligation store o; then every split of the
\* queue nobody is in (those just filled in too) is replaced by the splits of
\* o on its range; then the range after the last split is filled from o
splits_fill(o, splits, min, max) ==
  IF Len(splits) = 0 THEN splits_get(o, min, max)
  ELSE splits_fill_gaps(
         o,
         IF splits[1].min > min THEN splits_get(o, min, splits[1].min) ELSE NoSplits,
         splits,
         IF max > splits[Len(splits)].max
         THEN splits_get(o, splits[Len(splits)].max, max) ELSE NoSplits)

\* process_pay from splits_fill on: got are the splits of the presence store;
\* splits_fill is reached only if their sweep went through
pay_filled(got, filled) ==
  [oks |-> {x /\ y : x \in got.oks, y \in (IF TRUE \in got.oks THEN filled.oks ELSE {TRUE})},
   splits |-> filled.splits]

pay_fill(o, got, min, max) == pay_filled(got, splits_fill(o, got.splits, min, max))

\* the split sequence process_pay hands to splits_pay
pay_splits(p, o, min, max) == pay_fill(o, splits_get(p, min, max), min, max)

\* ------------------------------------------------------------- allocator
\* the cost of a split without the cent of PAYER_TIP
split_cost_untipped(split, value, bill_interval) ==
  CDiv((split.max - split.min) * value, Cardinality(split.who) * bill_interval)

\* the cost of one split for each person in it
split_cost(split, value, bill_interval) ==
  PAYER_TIP + CDiv((split.max - split.min) * value, Cardinality(split.who) * bill_interval)

\* who_pay without the test that skips the payer
RECURSIVE who_pay_all(_, _, _, _)
who_pay_all(g, payer, who, cost) ==
  IF who = {} THEN g
  ELSE LET w == CHOOSE x \in who : TRUE
       IN who_pay_all(ge_add(g, payer, w, cost), payer, who \ {w}, cost)

\* ge_add(payer, who, cost) for every who of the list other than the payer
RECURSIVE who_pay(_, _, _, _)
who_pay(g, payer, who, cost) ==
  IF who = {} THEN g
  ELSE LET w == CHOOSE x \in who : TRUE
       IN who_pay(IF w # payer THEN ge_add(g, payer, w, cost) ELSE g, payer, who \ {w}, cost)

\* splits_pay: split by split. A split nobody is in divides by zero, which is
\* undefined: where the division traps the run ends there with the earlier
\* splits already charged, where it does not the split charges nobody
RECURSIVE splits_pay(_, _, _, _, _, _, _)
splits_pay(g, splits, i, payer, value, bill_interval, trap) ==
  IF i > Len(splits) THEN [ok |-> TRUE, g |-> g]
  ELSE IF splits[i].who = {} \/ bill_interval = 0
       THEN IF trap THEN [ok |-> FALSE, g |-> g]
            ELSE splits_pay(g, splits, i + 1, payer, value, bill_interval, trap)
  ELSE splits_pay(who_pay(g, payer, splits[i].who, split_cost(splits[i], value, bill_interval)),
                  splits, i + 1, payer, value, bill_interval, trap)

\* the point query of process_buy put to the presence store
buy_matches_present(ts) == ti_pintersect(pdbs, ts)

\* process_buy: the intervals of the obligation store that match the date
buy_matches(ts) == ti_pintersect(npdbs, ts)

\* process_buy: the cost, and ge_add for every match other than the buyer
buy_cost(value, matches_l) == CDiv(value, matches_l) + PAYER_TIP

RECURSIVE buy_pay(_, _, _, _, _)
buy_pay(g, matches, i, id, dvalue) ==
  IF i > Len(matches) THEN g
  ELSE buy_pay(IF matches[i].who # id THEN ge_add(g, id, matches[i].who, dvalue) ELSE g,
               matches, i + 1, id, dvalue)

\* -------------------------------------------------------------- sem-echo
\* The text of a date: the day d and what follows it, nothing (a date only),
\* a time of midnight, or a time within the day.
EchoDates == {[d |-> d, t |-> t] : d \in Dates, t \in {"", "T00:00:00", "T12:00:00"}}
\* a word that strptime does not read as a date
BadDate == [d |-> -1, t |-> "?"]
NoDate == [d |-> -1, t |-> ""]

\* the timestamp of a date, counted in half days
sscantime(date) == 2 * date.d + (IF date.t = "T12:00:00" THEN 1 ELSE 0)

\* the date of a timestamp: the time is left out at midnight
printtime(ts) == [d |-> ts \div 2, t |-> IF ts % 2 = 0 THEN "" ELSE "T12:00:00"]

\* the lines of the input of sem-echo: a comment, an empty line, or a record,
\* which is its first word and its date
EchoLines ==
  {[op |-> "#", date |-> NoDate], [op |-> "", date |-> NoDate]}
    \cup {[op |-> o, date |-> x] : o \in {"BUY", "PAY"}, x \in EchoDates \cup {BadDate}}

\* argv[1], the record to insert
EchoInserts == {[op |-> "TRANSFER", date |-> x] : x \in EchoDates}
NoLine == [op |-> "", date |-> NoDate]

\* the lines of the input sem-echo reads at most
MaxLines == 3

\* ------------------------------------------------------------------ init
Init ==
  /\ gdb = <<>>
  /\ g_len = 0
  /\ pdbs = <<>>
  /\ npdbs = <<>>
  /\ gedb = <<>>
  /\ status = "run"
  /\ ledger = <<>>
  /\ out = <<>>
  /\ op_type_str = <<>>
  /\ nlines = MaxRecords
  /\ insert = NoLine
  /\ finished = 0

\* the number of records read, and the last of them
nrec == Len(ledger)
rec == IF ledger = <<>> THEN NoRec ELSE ledger[Len(ledger)]

Reading == status = "run" /\ nrec < nlines

\* the date of the last record read (TRANSFER and PAY do nothing with theirs,
\* which is left out of the record)
RECURSIVE LastDate(_)
LastDate(l) ==
  IF l = <<>> THEN 0
  ELSE IF l[Len(l)].op \in {"TRANSFER", "PAY"} THEN LastDate(SubSeq(l, 1, Len(l) - 1))
  ELSE l[Len(l)].ts

\* the ledger is kept in the order of its dates
Dated(ts) == ts + MaxBack >= LastDate(ledger)

\* a record names a registered nickname or the next new one
Named(nm) ==
  \/ nm \in DOMAIN gdb
  \/ \E i \in 1..Len(NickOrder) : nm = NickOrder[i] /\ i = Cardinality(DOMAIN gdb) + 1

\* CBUG printing the debts of the graph before it ends the run
Fatal_showing(r) ==
  /\ status' = "fatal"
  /\ ledger' = Append(ledger, r)
  /\ out' = ge_show(gedb).lines
  /\ UNCHANGED <<gdb, g_len, pdbs, npdbs, gedb>>

\* CBUG: the run ends with a diagnostic
Fatal(r) ==
  /\ status' = "fatal"
  /\ ledger' = Append(ledger, r)
  /\ UNCHANGED <<gdb, g_len, pdbs, npdbs, gedb, out>>

\* a division by zero that charges nobody: the run ends where the division
\* traps and goes on where it does not
DivZero(r) ==
  /\ status' \in {"fault", "run"}
  /\ ledger' = Append(ledger, r)
  /\ UNCHANGED <<gdb, g_len, pdbs, npdbs, gedb, out>>

\* TRANSFER <DATE> <FROM> <TO> <AMOUNT>
process_transfer(from, to, v) ==
  LET r == [NoRec EXCEPT !.op = "TRANSFER", !.who = from, !.to = to, !.v = v]
  IN /\ Reading
     /\ IF g_find(from) = g_notfound \/ g_find(to) = g_notfound
        THEN Fatal(r)
        ELSE /\ gedb' = ge_add(gedb, g_find(from), g_find(to), v)
             /\ ledger' = Append(ledger, r)
             /\ UNCHANGED <<gdb, g_len, pdbs, npdbs, status, out>>

\* START <DATE> <NICK>
process_start(nm, ts) ==
  /\ Reading
  /\ gdb' = g_insert(nm)
  /\ g_len' = g_len + 1
  /\ pdbs' = ti_insert(pdbs, g_len, ts, tinf)
  /\ npdbs' = ti_insert(npdbs, g_len, ts, tinf)
  /\ ledger' = Append(ledger, [NoRec EXCEPT !.op = "START", !.who = nm, !.ts = ts])
  /\ UNCHANGED <<gedb, status, out>>

\* STOP <DATE> <NICK>
process_stop(nm, ts) ==
  LET r == [NoRec EXCEPT !.op = "STOP", !.who = nm, !.ts = ts]
      id == g_find(nm)
  IN /\ Reading
     /\ ledger' = Append(ledger, r)
     /\ UNCHANGED <<gedb, out>>
     /\ IF id # g_notfound
        THEN /\ UNCHANGED <<gdb, g_len>>
             /\ \E a \in ti_finish_last(pdbs, id, ts) :
                  IF ~a.ok
                  THEN status' = "fatal" /\ UNCHANGED <<pdbs, npdbs>>
                  ELSE /\ pdbs' = a.db
                       /\ \E b \in ti_finish_last(npdbs, id, ts) :
                            IF ~b.ok
                            THEN status' = "fatal" /\ UNCHANGED npdbs
                            ELSE npdbs' = b.db /\ UNCHANGED status
        ELSE /\ gdb' = g_insert(nm)
             /\ g_len' = g_len + 1
             /\ pdbs' = ti_insert(pdbs, g_len, mtinf, ts)
             /\ npdbs' = ti_insert(npdbs, g_len, mtinf, ts)
             /\ UNCHANGED status

\* PAUSE <DATE> <NICK>
process_pause(nm, ts) ==
  LET r == [NoRec EXCEPT !.op = "PAUSE", !.who = nm, !.ts = ts]
      id == g_find(nm)
  IN /\ Reading
     /\ IF id = g_notfound
        THEN Fatal(r)
        ELSE /\ ledger' = Append(ledger, r)
             /\ UNCHANGED <<gdb, g_len, npdbs, gedb, out>>
             /\ \E a \in ti_finish_last(pdbs, id, ts) :
                  IF ~a.ok
                  THEN status' = "fatal" /\ UNCHANGED pdbs
                  ELSE pdbs' = a.db /\ UNCHANGED status

\* RESUME <DATE> <NICK>
process_resume(nm, ts) ==
  LET r == [NoRec EXCEPT !.op = "RESUME", !.who = nm, !.ts = ts]
      id == g_find(nm)
  IN /\ Reading
     /\ IF id = g_notfound
        THEN Fatal(r)
        ELSE /\ pdbs' = ti_insert(pdbs, id, ts, tinf)
             /\ ledger' = Append(ledger, r)
             /\ UNCHANGED <<gdb, g_len, npdbs, gedb, status, out>>

\* process_buy from the point query on
buy_apply(r, id, matches) ==
  /\ Reading
  /\ IF id = g_notfound THEN Fatal(r)
     ELSE IF Len(matches) = 0 THEN DivZero(r)
     ELSE /\ gedb' = buy_pay(gedb, matches, 1, id, buy_cost(r.v, Len(matches)))
          /\ ledger' = Append(ledger, r)
          /\ UNCHANGED <<gdb, g_len, pdbs, npdbs, status, out>>

\* BUY <DATE> <NICK> <AMOUNT>
process_buy(nm, ts, v) ==
  buy_apply([NoRec EXCEPT !.op = "BUY", !.who = nm, !.ts = ts, !.v = v],
            g_find(nm), buy_matches(ts))

\* process_pay from splits_pay on
pay_commit(r, paid) ==
  /\ gedb' = paid.g
  /\ status' = IF paid.ok THEN "run" ELSE "fault"
  /\ ledger' = Append(ledger, r)
  /\ UNCHANGED <<gdb, g_len, pdbs, npdbs, out>>

\* process_pay from the sweeps on: one of them may have ended the run
pay_apply(r, id, got) ==
  /\ Reading
  /\ \E ok \in got.oks, trap \in BOOLEAN :
       IF id = g_notfound \/ ~ok
       THEN Fatal(r)
       ELSE pay_commit(r, splits_pay(gedb, got.splits, 1, id, r.v, r.w1 - r.w0, trap))

\* PAY <DATE> <NICK> <AMOUNT> <START_DATE> <END_DATE>
process_pay(nm, v, w0, w1) ==
  pay_apply([NoRec EXCEPT !.op = "PAY", !.who = nm, !.v = v, !.w0 = w0, !.w1 = w1],
            g_find(nm), pay_splits(pdbs, npdbs, w0, w1))

\* main at the end of the input: ge_show, and the exit
main_end(shown) ==
  /\ status = "run"
  /\ status' = IF shown.ok THEN "done" ELSE "fatal"
  /\ out' = shown.lines
  /\ UNCHANGED <<gdb, g_len, pdbs, npdbs, gedb, ledger, op_type_str, nlines, insert, finished>>

\* the first word of a line, as the characters read_word copies: the seven
\* operations and some words that are none of them
OpNames ==
  { <<"S", "T", "A", "R", "T">>, <<"S", "T", "O", "P">>,
    <<"P", "A", "U", "S", "E">>, <<"R", "E", "S", "U", "M", "E">>,
    <<"T", "R", "A", "N", "S", "F", "E", "R">>, <<"B", "U", "Y">>,
    <<"P", "A", "Y">> }

OpWords ==
  OpNames \cup { <<"R", "E", "F", "U", "N", "D">>, <<"T", "I", "P">>,
                 <<"S", "P", "E", "N", "D">>, <<"N", "O", "T", "E">> }

\* op_type_str[i], the terminating NUL read as ""
OpChar(w, i) == IF i + 1 <= Len(w) THEN w[i + 1] ELSE ""

\* process_line: the switch on the characters of op_type_str; the result
\* names the handler the line goes to, "error" being the err() at the end
process_line(w) ==
  IF OpChar(w, 0) = "S"
  THEN IF OpChar(w, 1) # "T" THEN "error"
       ELSE IF OpChar(w, 2) = "A" THEN "START"
       ELSE IF OpChar(w, 2) = "O" THEN "STOP"
       ELSE "error"
  ELSE IF OpChar(w, 0) = "T" THEN "TRANSFER"
  ELSE IF OpChar(w, 0) = "P"
  THEN IF OpChar(w, 1) # "A" THEN "error"
       ELSE IF OpChar(w, 2) = "Y" THEN "PAY"
       ELSE IF OpChar(w, 2) = "U" THEN "PAUSE"
       ELSE "error"
  ELSE IF OpChar(w, 0) = "R" THEN "RESUME"
  ELSE IF OpChar(w, 0) = "B" THEN "BUY"
  ELSE "error"

\* process_line reads the first word of the line: it goes to handler h
Line(h) ==
  /\ \E w \in OpWords : process_line(w) = h /\ op_type_str' = w
  /\ UNCHANGED <<nlines, insert, finished>>

\* one line of the ledger is read, or the input ends
Next ==
  \/ Reading /\ Line("START") /\ \E nm \in Nicks, ts \in Dates :
                  Named(nm) /\ Dated(ts) /\ process_start(nm, ts)
  \/ Reading /\ Line("STOP") /\ \E nm \in Nicks, ts \in Dates :
                  Named(nm) /\ Dated(ts) /\ process_stop(nm, ts)
  \/ Reading /\ Line("PAUSE") /\ \E nm \in Nicks, ts \in Dates :
                  Named(nm) /\ Dated(ts) /\ process_pause(nm, ts)
  \/ Reading /\ Line("RESUME") /\ \E nm \in Nicks, ts \in Dates :
                  Named(nm) /\ Dated(ts) /\ process_resume(nm, ts)
  \/ Reading /\ Line("TRANSFER") /\ \E from \in Nicks, to \in Nicks, v \in Amounts :
                  Named(from) /\ Named(to) /\ process_transfer(from, to, v)
  \/ Reading /\ Line("BUY") /\ \E nm \in Nicks, ts \in Dates, v \in Amounts :
                  Named(nm) /\ Dated(ts) /\ process_buy(nm, ts, v)
  \/ Reading /\ Line("PAY") /\ \E nm \in Nicks, v \in Amounts, w0 \in Times, w1 \in Times :
                  Named(nm) /\ w0 <= w1 /\ process_pay(nm, v, w0, w1)
  \/ Reading /\ Line("error") /\ Fatal([NoRec EXCEPT !.op = "error"])
  \/ status = "run" /\ main_end(ge_show(gedb))

Spec == Init /\ [][Next]_vars

\* The longer ledgers: the input holds up to MaxLong records, all of them
\* START, PAUSE, RESUME and PAY records, every PAY of the one amount over
\* the whole of the time of the model.
InitLong ==
  /\ gdb = <<>>
  /\ g_len = 0
  /\ pdbs = <<>>
  /\ npdbs = <<>>
  /\ gedb = <<>>
  /\ status = "run"
  /\ ledger = <<>>
  /\ out = <<>>
  /\ op_type_str = <<>>
  /\ nlines = MaxLong
  /\ insert = NoLine
  /\ finished = 0

NextLong ==
  \/ Reading /\ Line("START") /\ op_type_str' \in OpNames /\ \E nm \in Nicks, ts \in Dates :
                  Named(nm) /\ Dated(ts) /\ process_start(nm, ts)
  \/ Reading /\ Line("PAUSE") /\ op_type_str' \in OpNames /\ \E nm \in Nicks, ts \in Dates :
                  Named(nm) /\ Dated(ts) /\ process_pause(nm, ts)
  \/ Reading /\ Line("RESUME") /\ op_type_str' \in OpNames /\ \E nm \in Nicks, ts \in Dates :
                  Named(nm) /\ Dated(ts) /\ process_resume(nm, ts)
  \/ Reading /\ Line("PAY") /\ op_type_str' \in OpNames /\ \E nm \in Nicks :
                  Named(nm) /\ process_pay(nm, 3, 0, MaxTime)

SpecLong == InitLong /\ [][NextLong]_vars

\* -------------------------------------------------------------- sem-echo
\* insert_ts, read from the date of argv[1] by main
insert_ts == sscantime(insert.date)

\* process_line printing the record to insert after the first record that is
\* not before it
echo_process_line_after(line) ==
  /\ Reading
  /\ ledger' = Append(ledger, line)
  /\ IF finished = 1 \/ line.op \in {"#", ""}
     THEN out' = Append(out, line) /\ UNCHANGED <<finished, status>>
     ELSE IF line.date = BadDate
     THEN status' = "fatal" /\ UNCHANGED <<out, finished>>
     ELSE /\ out' = Append(out, [op |-> line.op, date |-> printtime(sscantime(line.date))])
                      \o (IF sscantime(line.date) >= insert_ts THEN <<insert>> ELSE <<>>)
          /\ finished' = IF sscantime(line.date) >= insert_ts THEN 1 ELSE finished
          /\ UNCHANGED status
  /\ UNCHANGED <<gdb, g_len, pdbs, npdbs, gedb, op_type_str, nlines, insert>>

\* process_line of sem-echo: a comment, an empty line and every line after
\* the insertion are printed as they are; of a record the date is read
\* (err on a bad date), the record to insert is printed before the first
\* record that is not before it, and the record is printed with the date
\* printtime gives
echo_process_line(line) ==
  /\ Reading
  /\ ledger' = Append(ledger, line)
  /\ IF finished = 1 \/ line.op \in {"#", ""}
     THEN out' = Append(out, line) /\ UNCHANGED <<finished, status>>
     ELSE IF line.date = BadDate
     THEN status' = "fatal" /\ UNCHANGED <<out, finished>>
     ELSE /\ out' = Append(out \o (IF sscantime(line.date) >= insert_ts THEN <<insert>> ELSE <<>>),
                           [op |-> line.op, date |-> printtime(sscantime(line.date))])
          /\ finished' = IF sscantime(line.date) >= insert_ts THEN 1 ELSE finished
          /\ UNCHANGED status
  /\ UNCHANGED <<gdb, g_len, pdbs, npdbs, gedb, op_type_str, nlines, insert>>

\* main of sem-echo at the end of the input
echo_main_end ==
  /\ status = "run"
  /\ out' = IF finished = 0 THEN Append(out, insert) ELSE out
  /\ status' = "done"
  /\ UNCHANGED <<gdb, g_len, pdbs, npdbs, gedb, ledger, op_type_str, nlines, insert, finished>>

\* main of sem-echo has read the date of argv[1]
InitEcho ==
  /\ gdb = <<>>
  /\ g_len = 0
  /\ pdbs = <<>>
  /\ npdbs = <<>>
  /\ gedb = <<>>
  /\ status = "run"
  /\ ledger = <<>>
  /\ out = <<>>
  /\ op_type_str = <<>>
  /\ nlines = MaxLines
  /\ insert \in EchoInserts
  /\ finished = 0

NextEcho ==
  \/ \E line \in EchoLines : echo_process_line(line)
  \/ echo_main_end

SpecEcho == InitEcho /\ [][NextEcho]_vars

\* ---------------------------------------------------------------- claims
\* the ids allocated so far, and the next one
Ids == 0..g_len

\* a record was read and the run goes on
Applied(op) == rec'.op = op /\ nrec' = nrec + 1 /\ status' = "run"

\* C1: after any sequence of records, get(a,b) = -get(b,a) for all distinct
\* ids a and b, both being views of the one cell kept under (min, max).
C1_SkewSymmetric ==
  /\ \A k \in DOMAIN gedb : k[1] <= k[2]
  /\ \A a \in Ids, b \in Ids :
       a < b => /\ ge_get(gedb, a, b) = (IF <<a, b>> \in DOMAIN gedb THEN gedb[<<a, b>>] ELSE 0)
                /\ ge_get(gedb, b, a) = -ge_get(gedb, a, b)

\* a debt read against the order of its cell: the lower id owes the higher
C1_Witness == \E a \in Ids, b \in Ids : a < b /\ ge_get(gedb, b, a) > 0

\* C2: add(from, to, v) leaves get(from, to) at its previous value plus v, for
\* from < to and for from > to, and changes no other edge.
C2_AddAdditive ==
  [][Applied("TRANSFER") =>
       LET from == gdb[rec'.who]
           to == gdb[rec'.to]
       IN /\ from # to => ge_get(gedb', from, to) = ge_get(gedb, from, to) + rec'.v
          /\ \A a \in Ids, b \in Ids :
               {a, b} # {from, to} => ge_get(gedb', a, b) = ge_get(gedb, a, b)]_vars

\* a TRANSFER from a higher to a lower id over an edge that already held a debt
C2_Witness ==
  /\ rec.op = "TRANSFER" /\ status = "run"
  /\ gdb[rec.who] > gdb[rec.to]
  /\ ge_get(gedb, gdb[rec.who], gdb[rec.to]) \notin {0, rec.v}

\* ------------------------------------------------------------- PAY claims
RECURSIVE SeqSum(_)
SeqSum(q) == IF Len(q) = 0 THEN 0 ELSE Head(q) + SeqSum(Tail(q))

\* this step reads the PAY record r, of a registered payer over a window W0 < W1
PayRead(r) ==
  /\ nrec' = nrec + 1 /\ r = rec' /\ r.op = "PAY"
  /\ r.who \in DOMAIN gdb
  /\ r.w0 < r.w1

\* the START, STOP, PAUSE and RESUME records of the ledger that name nm
Presence(nm) ==
  SelectSeq(ledger, LAMBDA x : x.who = nm /\ x.op \in {"START", "STOP", "PAUSE", "RESUME"})

\* The ledger so far follows the state machine of a person: everybody was
\* either STARTed and then PAUSEd and RESUMEd in turns, or is known from a
\* single STOP, having been in the house from before the ledger.
Regular ==
  \A nm \in DOMAIN gdb :
    LET q == Presence(nm)
    IN /\ Len(q) > 0
       /\ q[1].op \in {"START", "STOP"}
       /\ q[1].op = "STOP" => Len(q) = 1
       /\ \A i \in 2..Len(q) : q[i].op = (IF i % 2 = 0 THEN "PAUSE" ELSE "RESUME")

\* this step reads the PAY record r and the run goes on
PayApplied(r) == PayRead(r) /\ status' = "run"

\* what this step adds to the debt of o to the person named in the record r
Charge(r, o) == ge_get(gedb', gdb[r.who], o) - ge_get(gedb, gdb[r.who], o)

\* the sum of the costs of the splits o is in
Share(splits, cost, o) ==
  SeqSum([i \in 1..Len(splits) |-> IF o \in splits[i].who THEN cost[i] ELSE 0])

\* the cost of a split with the one cent only when the division is not exact
TipIfRemainder(split, value, bill_interval) ==
  LET num == (split.max - split.min) * value
      den == Cardinality(split.who) * bill_interval
  IN CDiv(num, den) + (IF num % den # 0 THEN 1 ELSE 0)

\* C3: in a PAY the cost of a split for each of its n persons is the
\* truncated V*(b-a) / (n*(W1-W0)), plus one cent iff the division leaves a
\* remainder: every person other than the payer is charged these costs.
\* Stated for the ledgers that follow the state machine of a person.
C3_TipOnlyOnRemainder ==
  [][\A r \in {rec'} : (PayApplied(r) /\ Regular) =>
       \A splits \in {pay_splits(pdbs, npdbs, r.w0, r.w1).splits} :
         \A cost \in {[i \in 1..Len(splits) |->
                         IF splits[i].who = {} THEN 0
                         ELSE TipIfRemainder(splits[i], r.v, r.w1 - r.w0)]} :
           \A o \in Ids \ {gdb[r.who]} : Charge(r, o) = Share(splits, cost, o)]_vars

\* C4: a PAY by p adds to get(p,o), for every o other than p, exactly the sum
\* of the costs of the splits o is in; nothing is charged to p and no edge
\* between two persons other than p changes.
C4_PayCharges ==
  [][\A r \in {rec'} : PayApplied(r) =>
       \A splits \in {pay_splits(pdbs, npdbs, r.w0, r.w1).splits} :
         \A cost \in {[i \in 1..Len(splits) |->
                         IF splits[i].who = {} THEN 0
                         ELSE split_cost(splits[i], r.v, r.w1 - r.w0)]} :
           /\ \A o \in Ids \ {gdb[r.who]} : Charge(r, o) = Share(splits, cost, o)
           /\ Charge(r, gdb[r.who]) = 0
           /\ \A a \in Ids \ {gdb[r.who]}, b \in Ids \ {gdb[r.who]} :
                ge_get(gedb', a, b) = ge_get(gedb, a, b)]_vars

\* a PAY that charged two persons, one of them for more than the other
C4_Witness ==
  /\ rec.op = "PAY" /\ status = "run"
  /\ \E a \in Ids, b \in Ids :
       /\ a # b /\ a # gdb[rec.who] /\ b # gdb[rec.who]
       /\ ge_get(gedb, gdb[rec.who], a) > ge_get(gedb, gdb[rec.who], b)
       /\ ge_get(gedb, gdb[rec.who], b) > 0

\* the persons with an interval of the store s that holds [t, t+1)
Owners(s, t) == {s[i].who : i \in {j \in 1..Len(s) : s[j].min <= t /\ t < s[j].max}}

\* somebody rents at every moment of the window
Rented(w0, w1) == \A t \in w0..(w1 - 1) : Owners(npdbs, t) # {}

\* the splits partition [w0, w1]
Partition(splits, w0, w1) ==
  /\ Len(splits) > 0
  /\ splits[1].min = w0
  /\ splits[Len(splits)].max = w1
  /\ \A i \in 1..Len(splits) : splits[i].min < splits[i].max
  /\ \A i \in 1..(Len(splits) - 1) : splits[i].max = splits[i + 1].min

\* C5: a PAY over [W0,W1], W0 < W1, is settled on a split sequence that
\* partitions the window: the first split starts at W0, the last ends at W1,
\* every split has a < b and ends where the next starts.  Stated for the
\* ledgers that follow the state machine of a person and the windows somebody
\* rents throughout.
C5_Partition ==
  [][\A r \in {rec'} : (PayRead(r) /\ Regular /\ Rented(r.w0, r.w1)) =>
       /\ status' = "run"
       /\ Partition(pay_splits(pdbs, npdbs, r.w0, r.w1).splits, r.w0, r.w1)]_vars

\* the owners of the matches m that cover [a, b]
Covering(m, a, b) == {m[i].who : i \in {j \in 1..Len(m) : m[j].min <= a /\ b <= m[j].max}}

\* C6: every split (a,b,occupants) the sweep makes of the intervals of the
\* presence store clipped to the window has as occupants exactly the owners
\* of the clipped intervals that cover [a,b), also when an opening and a
\* closing fall on one timestamp.  Stated for the ledgers that follow the
\* state machine of a person.
C6_OccupantsExact ==
  [][\A r \in {rec'} : (PayApplied(r) /\ Regular) =>
       \A m \in {matches_fix(ti_intersect(pdbs, r.w0, r.w1), r.w0, r.w1)} :
         \A splits \in {ti_split(m).splits} :
           \A i \in 1..Len(splits) :
             splits[i].who = Covering(m, splits[i].min, splits[i].max)]_vars

\* the moments of the window at which the splits have nobody
Unoccupied(splits, w0, w1) ==
  {t \in w0..(w1 - 1) :
     ~\E i \in 1..Len(splits) :
        splits[i].who # {} /\ splits[i].min <= t /\ t < splits[i].max}

\* C7: in a PAY every part of the window in which the sweep of the presence
\* store has nobody is settled on the splits of the obligation store: the
\* persons renting then are the occupants.  Stated for the ledgers that follow
\* the state machine of a person and the windows somebody rents throughout.
C7_GapsFromObligations ==
  [][\A r \in {rec'} : (PayRead(r) /\ Regular /\ Rented(r.w0, r.w1)) =>
       /\ status' = "run"
       /\ \A present \in {splits_get(pdbs, r.w0, r.w1).splits},
             final \in {pay_splits(pdbs, npdbs, r.w0, r.w1).splits} :
            \A t \in Unoccupied(present, r.w0, r.w1) :
              \E i \in 1..Len(final) :
                /\ final[i].min <= t /\ t < final[i].max
                /\ final[i].who = Owners(npdbs, t)]_vars

\* nm is away from t on, is in the house from t on
AwaySince(nm, t) ==
  LET q == Presence(nm) IN q[1].op = "START" /\ q[Len(q)].op = "PAUSE" /\ q[Len(q)].ts <= t

HereSince(nm, t) ==
  LET q == Presence(nm) IN q[1].op = "START" /\ q[Len(q)].op # "PAUSE" /\ q[Len(q)].ts <= t

\* C8: a PAY leaves the debt of a person to the payer as it was when that
\* person is PAUSEd for the whole window and somebody else is in the house
\* for the whole window.  Stated for the ledgers that follow the state machine
\* of a person.
C8_PausedNotCharged ==
  [][\A r \in {rec'} : (PayRead(r) /\ Regular) =>
       \A x \in DOMAIN gdb :
         (AwaySince(x, r.w0) /\ \E y \in DOMAIN gdb : HereSince(y, r.w0))
           => Charge(r, gdb[x]) = 0]_vars

\* ------------------------------------------------------------- BUY claims
\* this step reads the BUY record r and the run goes on
BuyApplied(r) ==
  /\ nrec' = nrec + 1 /\ r = rec' /\ r.op = "BUY"
  /\ status' = "run"

\* C9: a BUY of V by p at t, with n intervals of the obligation store
\* matching t, adds V \div n, and one cent more iff V mod n # 0, to get(p,o)
\* for every owner o # p of a match, and changes nothing else.  Stated for
\* the ledgers that follow the state machine of a person.
C9_BuyTipOnlyOnRemainder ==
  [][\A r \in {rec'} : (BuyApplied(r) /\ Regular) =>
       \A m \in {buy_matches(r.ts)} :
         \A o \in Ids :
           Charge(r, o) =
             IF o # gdb[r.who] /\ \E i \in 1..Len(m) : m[i].who = o
             THEN (r.v \div Len(m)) + (IF r.v % Len(m) # 0 THEN 1 ELSE 0)
             ELSE 0]_vars

BuyRead(r) == nrec' = nrec + 1 /\ r = rec' /\ r.op = "BUY" /\ r.who \in DOMAIN gdb

\* C11: a BUY at a date no obligation interval matches is a fatal error: the
\* run ends with the diagnostic of an error, the division by the number of
\* matches is not evaluated, and the debt graph is left as it was.
C11_BuyNoMatchFatal ==
  [][\A r \in {rec'} : (BuyRead(r) /\ Regular /\ Len(buy_matches(r.ts)) = 0) =>
       (status' = "fatal" /\ gedb' = gedb)]_vars

\* the intervals of the owner p in the store s that are still open
OpenOf(s, p) == {i \in 1..Len(s) : s[i].who = p /\ s[i].max = tinf}

\* C12: after every record of any ledger each of the two stores holds, for
\* every owner, at most one interval whose end is +infinity.
C12_OneOpenInterval ==
  \A p \in Ids : Cardinality(OpenOf(pdbs, p)) <= 1 /\ Cardinality(OpenOf(npdbs, p)) <= 1

\* the interval a lies within the interval b
Within(a, b) == b.min <= a.min /\ a.max <= b.max

\* C13: after every record of any ledger every presence interval of an owner
\* lies within some obligation interval of the same owner.
C13_PresenceWithinObligation ==
  \A i \in 1..Len(pdbs) :
    \E j \in 1..Len(npdbs) : npdbs[j].who = pdbs[i].who /\ Within(pdbs[i], npdbs[j])

\* the closed intervals of the owner p in the store s
ClosedOf(s, p) == {i \in 1..Len(s) : s[i].who = p /\ s[i].max # tinf}

\* the records of the ledger that carry a date come in the order of time
Ordered ==
  \A i \in 1..Len(ledger), j \in 1..Len(ledger) :
    (i < j /\ ledger[i].op \notin {"TRANSFER", "PAY"} /\ ledger[j].op \notin {"TRANSFER", "PAY"})
      => ledger[i].ts <= ledger[j].ts

\* C14: after every record of a ledger whose timestamps do not decrease, the
\* closed presence intervals of one owner are pairwise disjoint, and the open
\* one of that owner starts at or after the end of each of the closed ones.
\* Stated for the ledgers that follow the state machine of a person.
C14_PresenceDisjoint ==
  (Ordered /\ Regular) =>
    \A p \in Ids :
      /\ \A i \in ClosedOf(pdbs, p), j \in ClosedOf(pdbs, p) :
           i # j => (pdbs[i].max <= pdbs[j].min \/ pdbs[j].max <= pdbs[i].min)
      /\ \A i \in ClosedOf(pdbs, p), j \in OpenOf(pdbs, p) : pdbs[i].max <= pdbs[j].min

\* C15: the registry is a bijection between the ids allocated so far and the
\* nicknames: every id has the nickname it was given, the lookup of that
\* nickname gives the id back, and so no binding made earlier is changed or
\* lost.
C15_RegistryBijection ==
  \A p \in 0..(g_len - 1) : gi_get(p) \in DOMAIN gdb /\ g_find(gi_get(p)) = p

\* C16: a START that names a nickname already registered fails: the run ends,
\* no id is allocated, the nickname keeps its id, and neither store gains an
\* interval.
C16_StartKnownFails ==
  [][\A r \in {rec'} :
       (nrec' = nrec + 1 /\ r.op = "START" /\ r.who \in DOMAIN gdb) =>
         /\ status' # "run"
         /\ g_len' = g_len /\ gdb' = gdb
         /\ pdbs' = pdbs /\ npdbs' = npdbs]_vars

\* C17: two TRANSFERs from a to b of v1 and v2 give the debt graph of one
\* TRANSFER of v1 + v2, whatever their dates and whatever is read between
\* them that does not touch the pair: a TRANSFER is ge_add on the cell of the
\* pair and on nothing else, adding twice is adding the sum, and a step that
\* leaves the cell alone leaves what a later TRANSFER makes of it alone.
C17_TransferAdditive ==
  [][\A r \in {rec'}, g0 \in {gedb}, g1 \in {gedb'} :
       /\ (Applied("TRANSFER") /\ r.who \in DOMAIN gdb /\ r.to \in DOMAIN gdb)
            => /\ g1 = ge_add(g0, gdb[r.who], gdb[r.to], r.v)
               /\ UNCHANGED <<gdb, g_len, pdbs, npdbs>>
       /\ \A a \in Ids, b \in Ids, v1 \in Amounts :
            \A h \in {ge_add(g1, a, b, v1)} :
              /\ \A v2 \in Amounts : ge_add(h, a, b, v2) = ge_add(g1, a, b, v1 + v2)
              /\ DOMAIN h = DOMAIN g1 \cup {ge_key(a, b)}
              /\ \A k \in DOMAIN g1 : k # ge_key(a, b) => h[k] = g1[k]
              /\ ((ge_key(a, b) \in DOMAIN g1) = (ge_key(a, b) \in DOMAIN g0)
                    /\ ge_get(g1, a, b) = ge_get(g0, a, b))
                   => ge_get(h, a, b) = ge_get(ge_add(g0, a, b, v1), a, b)]_vars

\* two TRANSFERs from one person to another, read one after the other, have
\* left the sum of their amounts as the debt of the second to the first
C17_Witness ==
  /\ rec.op = "TRANSFER" /\ status = "run" /\ nrec >= 2
  /\ rec.who # rec.to
  /\ ledger[nrec - 1].op = "TRANSFER"
  /\ ledger[nrec - 1].who = rec.who /\ ledger[nrec - 1].to = rec.to
  /\ ledger[nrec - 1].v # rec.v
  /\ ge_get(gedb, gdb[rec.who], gdb[rec.to]) = ledger[nrec - 1].v + rec.v

\* the end of the input is read in this step
EndOfInput == status = "run" /\ status' # "run" /\ nrec' = nrec

\* C18: the final output has exactly one line for every unordered pair of
\* ids whose net weight is not zero, with the higher id as the debtor when
\* the stored weight is positive and the lower id otherwise, and no line for
\* a pair whose weight is zero.
C18_OutputLines ==
  [][EndOfInput =>
       /\ status' = "done"
       /\ \A a \in 0..(g_len - 1), b \in 0..(g_len - 1) :
            a <= b =>
              IF ge_get(gedb, a, b) = 0
              THEN \A i \in 1..Len(out') : ~(out'[i].debtor = gi_get(a) /\ out'[i].creditor = gi_get(b))
                                        /\ ~(out'[i].debtor = gi_get(b) /\ out'[i].creditor = gi_get(a))
              ELSE \E i \in 1..Len(out') :
                     /\ out'[i].debtor = gi_get(IF ge_get(gedb, a, b) > 0 THEN b ELSE a)
                     /\ out'[i].creditor = gi_get(IF ge_get(gedb, a, b) > 0 THEN a ELSE b)
                     /\ \A j \in 1..Len(out') :
                          (out'[j].debtor \in {gi_get(a), gi_get(b)}
                             /\ out'[j].creditor \in {gi_get(a), gi_get(b)}
                             /\ (a = b <=> out'[j].debtor = out'[j].creditor)) => j = i]_vars

\* the persons of the splits, each counted once for every split it is in
Heads(splits) == SeqSum([i \in 1..Len(splits) |-> Cardinality(splits[i].who)])

\* the time covered by the splits somebody is in
Covered(splits) ==
  SeqSum([i \in 1..Len(splits) |->
            IF splits[i].who = {} THEN 0 ELSE splits[i].max - splits[i].min])

\* what the PAY of the record r collects: the costs this step charges to the
\* persons other than the payer, and the payer's own shares of the splits
Collected(r, splits, cost) ==
  SeqSum([i \in 1..(g_len + 1) |-> IF i - 1 = gdb[r.who] THEN 0 ELSE Charge(r, i - 1)])
    + Share(splits, cost, gdb[r.who])

\* every division of this PAY leaves a remainder, so that the cent is due by
\* the rule of the remainder as well
AllRemainders(r, splits) ==
  \A i \in 1..Len(splits) :
    /\ splits[i].who # {}
    /\ ((splits[i].max - splits[i].min) * r.v) % (Cardinality(splits[i].who) * (r.w1 - r.w0)) # 0

C20_EmptyWindow ==
  [][\A r \in {rec'} :
       (nrec' = nrec + 1 /\ r.op = "PAY" /\ r.who \in DOMAIN gdb /\ r.w0 = r.w1 /\ Regular) =>
         /\ status' = "run"
         /\ gedb' = gedb
         /\ pay_splits(pdbs, npdbs, r.w0, r.w1).splits = <<>>]_vars

\* by the ledger, nm has left the house or is away from before t
GoneSince(nm, t) ==
  LET q == Presence(nm)
  IN q[Len(q)].op \in {"STOP", "PAUSE"} /\ q[Len(q)].ts <= t

\* C21: when the payer is the only occupant throughout the window of a PAY,
\* the PAY charges nobody and leaves the debt graph as it was. Stated for
\* the ledgers that follow the state machine of a person: the payer is in the
\* house from before the window and everybody else has left or is away from
\* before it.
C21_SoleOccupantNoCharge ==
  [][\A r \in {rec'} :
       (/\ PayRead(r) /\ Regular
        /\ HereSince(r.who, r.w0)
        /\ \A nm \in DOMAIN gdb \ {r.who} : GoneSince(nm, r.w0)) =>
         (status' = "run" /\ gedb' = gedb)]_vars

\* this step reads the record r: a STOP that names a registered nickname
StopKnownRead(r) ==
  nrec' = nrec + 1 /\ r = rec' /\ r.op = "STOP" /\ r.who \in DOMAIN gdb

\* the store t is the store s with the open interval of p closed at end and
\* nothing else changed
ClosedAt(s, t, p, end) ==
  \E i \in OpenOf(s, p) :
    /\ Len(t) = Len(s)
    /\ {t[j] : j \in 1..Len(t)} =
         ({s[j] : j \in 1..Len(s)} \ {s[i]}) \cup {[s[i] EXCEPT !.max = end]}

\* C22: a STOP at t of a known person whose intervals are open in both
\* stores replaces each of the two open intervals [min, +infinity) by
\* [min, t): afterwards the person has no open interval in either store.
\* Stated for the ledgers that follow the state machine of a person.
C22_StopClosesBoth ==
  [][\A r \in {rec'} :
       (/\ StopKnownRead(r) /\ Regular
        /\ Cardinality(OpenOf(pdbs, gdb[r.who])) = 1
        /\ Cardinality(OpenOf(npdbs, gdb[r.who])) = 1) =>
         /\ status' = "run"
         /\ ClosedAt(pdbs, pdbs', gdb[r.who], r.ts)
         /\ ClosedAt(npdbs, npdbs', gdb[r.who], r.ts)
         /\ OpenOf(pdbs', gdb[r.who]) = {} /\ OpenOf(npdbs', gdb[r.who]) = {}]_vars

\* this step reads the record r: a STOP that names a nickname not registered
StopNewRead(r) ==
  nrec' = nrec + 1 /\ r = rec' /\ r.op = "STOP" /\ r.who \notin DOMAIN gdb

\* the store t is the store s with one more record, the interval [min, max]
\* of the owner p
Gained(s, t, p, min, max) ==
  /\ Len(t) = Len(s) + 1
  /\ \A j \in 1..Len(s) : \E k \in 1..Len(t) : t[k] = s[j]
  /\ \E k \in 1..Len(t) : t[k].who = p /\ t[k].min = min /\ t[k].max = max

AwayRead(r) ==
  nrec' = nrec + 1 /\ r = rec' /\ r.op \in {"PAUSE", "RESUME"} /\ r.who \in DOMAIN gdb

\* C24: PAUSE and RESUME change the presence store alone: a PAUSE at t
\* closes the open presence interval of the person at t, a RESUME at t
\* inserts [t, +infinity) for the person into it, and both leave the
\* obligation store, the registry and the debt graph as they were. Stated for
\* the ledgers that follow the state machine of a person.
C24_OnlyPresence ==
  [][\A r \in {rec'} : (AwayRead(r) /\ Regular') =>
       /\ npdbs' = npdbs /\ gdb' = gdb /\ g_len' = g_len /\ gedb' = gedb
       /\ status' = "run"
       /\ r.op = "PAUSE" => ClosedAt(pdbs, pdbs', gdb[r.who], r.ts)
       /\ r.op = "RESUME" => Gained(pdbs, pdbs', gdb[r.who], r.ts, tinf)]_vars

\* C25: a PAUSE of an owner with no open interval in the presence store, and
\* a STOP of an owner with no open interval in one of the two stores, is a
\* fatal error: the run ends and no interval of either store is changed, so
\* no closed interval gets another max. Stated for the ledgers that follow
\* the state machine of a person up to this record.
C25_NoOpenIsFatal ==
  [][\A r \in {rec'} :
       (/\ nrec' = nrec + 1 /\ r.who \in DOMAIN gdb /\ Regular
        /\ \/ r.op = "PAUSE" /\ OpenOf(pdbs, gdb[r.who]) = {}
           \/ r.op = "STOP" /\ (OpenOf(pdbs, gdb[r.who]) = {} \/ OpenOf(npdbs, gdb[r.who]) = {})) =>
         (status' # "run" /\ pdbs' = pdbs /\ npdbs' = npdbs)]_vars

\* C26: a RESUME of an owner who has an open interval in the presence store
\* is a fatal error and no second open interval is inserted: the run ends
\* and the presence store is left as it was.
C26_ResumeOpenIsFatal ==
  [][\A r \in {rec'} :
       (/\ nrec' = nrec + 1 /\ r.op = "RESUME" /\ r.who \in DOMAIN gdb /\ Regular
        /\ OpenOf(pdbs, gdb[r.who]) # {}) =>
         (status' # "run" /\ pdbs' = pdbs)]_vars

\* the record r names a nickname that is not registered where a registered
\* one is required
NamesUnknown(r) ==
  /\ r.op \in {"PAUSE", "RESUME", "TRANSFER", "BUY", "PAY"}
  /\ \/ r.who \notin DOMAIN gdb
     \/ r.op = "TRANSFER" /\ r.to \notin DOMAIN gdb

\* C27: a PAUSE, RESUME, TRANSFER, BUY or PAY that names a nickname not
\* registered is a fatal error: the run ends at that record with the
\* registry, both stores and the debt graph as they were, and once the run
\* has ended nothing is read or changed any more.
C27_UnknownIsFatal ==
  [][/\ \A r \in {rec'} : (nrec' = nrec + 1 /\ NamesUnknown(r)) =>
          /\ status' = "fatal"
          /\ UNCHANGED <<gdb, g_len, pdbs, npdbs, gedb, out>>
     /\ status \in {"fatal", "fault"} => UNCHANGED vars]_vars

\* the run was ended by a record naming an unknown nickname, read when the
\* stores held intervals and the graph held a debt
C27_Witness ==
  /\ status = "fatal" /\ nrec >= 1
  /\ NamesUnknown(rec)
  /\ rec.op = "PAY" /\ rec.w0 < rec.w1 /\ Regular
  /\ Len(pdbs) > 1 /\ \E k \in DOMAIN gedb : gedb[k] # 0

\* a STOP that names nm has been read
Stopped(nm) == \E i \in 1..Len(ledger) : ledger[i].op = "STOP" /\ ledger[i].who = nm

\* the intervals of the owner p in the store s
IntervalsOf(s, p) == {[min |-> s[i].min, max |-> s[i].max] : i \in {j \in 1..Len(s) : s[j].who = p}}

\* C28: STOPPED is terminal: once a person has been STOPped no START, STOP,
\* PAUSE or RESUME that names the person is accepted any more, and the
\* intervals of the person in the two stores never change again, whatever
\* record is read.
C28_StoppedIsTerminal ==
  [][\A r \in {rec'} : \A nm \in DOMAIN gdb :
       (nrec' = nrec + 1 /\ Stopped(nm)) =>
         /\ (r.who = nm /\ r.op \in {"START", "STOP", "PAUSE", "RESUME"}) => status' # "run"
         /\ IntervalsOf(pdbs', gdb[nm]) = IntervalsOf(pdbs, gdb[nm])
         /\ IntervalsOf(npdbs', gdb[nm]) = IntervalsOf(npdbs, gdb[nm])]_vars

\* C29: a line whose first word is none of START, STOP, PAUSE, RESUME,
\* TRANSFER, BUY, PAY is a fatal error: the run ends at that line and the
\* line changes nothing, being neither skipped nor handed to the handler of
\* an operation that begins with the same letters.
C29_UnknownOpIsFatal ==
  [][(nrec' = nrec + 1 /\ op_type_str' \notin OpNames) =>
       /\ status' = "fatal"
       /\ UNCHANGED <<gdb, g_len, pdbs, npdbs, gedb, out>>]_vars

\* C30: no debt line is emitted before the last record has been processed,
\* and a record that causes a fatal error ends the run at that record: no
\* debt line is emitted at all and no later record is applied.
C30_NoPartialOutput ==
  [][/\ out' # out => (status = "run" /\ nrec' = nrec /\ status' # "run")
     /\ (nrec' = nrec + 1 /\ status' # "run") => out' = <<>>
     /\ status # "run" => UNCHANGED vars]_vars

\* a record has ended the run with a debt in the graph that would have had
\* its line, and no line was emitted
C30_Witness ==
  /\ status = "fatal" /\ nrec >= 1
  /\ rec.op \in {"PAUSE", "STOP", "error"}
  /\ ge_show(gedb).lines # <<>>
  /\ out = <<>>

\* the struct ti of the records of the store s that hold the date t, ends
\* included
Holding(s, t) == {ti_data(s[i]) : i \in {j \in 1..Len(s) : s[j].min <= t /\ t <= s[j].max}}

\* C31: the point query of a BUY at t matches exactly the obligation
\* intervals with min <= t <= max, so a person whose obligation starts at
\* exactly t is among the occupants.
C31_PointQueryClosed ==
  [][\A r \in {rec'} : (BuyRead(r) /\ Regular) =>
       \A m \in {ti_pintersect(npdbs, r.ts)} :
         {m[i] : i \in 1..Len(m)} = Holding(npdbs, r.ts)]_vars

\* how many times the struct ti v occurs in the sequence q
Times_in(q, v) == Cardinality({i \in 1..Len(q) : q[i] = v})

\* the matches m are the records of s with max >= a and min < b, each once
ExactMatches(s, m, a, b) ==
  /\ Len(m) = Cardinality({i \in 1..Len(s) : s[i].max >= a /\ s[i].min < b})
  /\ \A i \in 1..Len(s) :
       Times_in(m, ti_data(s[i])) =
         IF s[i].max >= a /\ s[i].min < b
         THEN Cardinality({j \in 1..Len(s) : ti_data(s[j]) = ti_data(s[i])})
         ELSE 0

C33_CloseOpenFrame ==
  Regular =>
    \A id \in Ids, end \in Dates :
      \A open \in {OpenOf(pdbs, id)} :
        Cardinality(open) = 1 =>
          \A o \in ti_finish_last(pdbs, id, end) :
            /\ o.ok
            /\ \A i \in open : o.db = [pdbs EXCEPT ![i].max = end]

\* no two consecutive splits of the sequence have the same occupants
Maximal(splits) == \A i \in 1..(Len(splits) - 1) : splits[i].who # splits[i + 1].who

\* C34: the split sequence used by a PAY is the minimal partition into
\* sub-intervals of constant occupancy: any two consecutive splits have
\* different occupant sets.  Stated for the ledgers that follow the state
\* machine of a person.
C34_MinimalPartition ==
  [][\A r \in {rec'} : (PayApplied(r) /\ Regular) =>
       Maximal(pay_splits(pdbs, npdbs, r.w0, r.w1).splits)]_vars

\* C35: after every record of a ledger whose dates do not decrease, every
\* interval of the presence store and of the obligation store has
\* min <= max.  Stated for the ledgers that follow the state machine of a
\* person.
C35_MinBeforeMax ==
  (Regular /\ \A i \in 1..(Len(ledger) - 1) : LastDate(SubSeq(ledger, 1, i)) <= LastDate(SubSeq(ledger, 1, i + 1))) =>
    /\ \A i \in 1..Len(pdbs) : pdbs[i].min <= pdbs[i].max
    /\ \A i \in 1..Len(npdbs) : npdbs[i].min <= npdbs[i].max

\* C36: no PAY divides by zero.  For a PAY of a registered payer over a
\* window W0 < W1, every split that reaches the computation of the cost has
\* somebody in it, and over a window that no interval of the stores
\* intersects the PAY makes no split: it charges nothing and the run goes
\* on.  Stated for the ledgers that follow the state machine of a person.
C36_NoDivisionByZero ==
  [][\A r \in {rec'} : (PayRead(r) /\ Regular) =>
       /\ status' # "fault"
       /\ \A ps \in {pay_splits(pdbs, npdbs, r.w0, r.w1)} :
            (TRUE \in ps.oks) => \A i \in 1..Len(ps.splits) : ps.splits[i].who # {}
       /\ (Len(ti_intersect(pdbs, r.w0, r.w1)) = 0 /\ Len(ti_intersect(npdbs, r.w0, r.w1)) = 0)
            => (status' = "run" /\ gedb' = gedb)]_vars

\* the sweep of the store s over [a, b] has events to walk, and who_remove
\* cannot fail in it
SweepSafe(s, a, b) == Len(ti_intersect(s, a, b)) > 0 => FALSE \notin splits_get(s, a, b).oks

\* every record of the store s holds the interval it was inserted with, its
\* end apart: no put has replaced it by the interval of another record
Intact(s) == \A i \in 1..Len(s) : s[i].who = s[i].kwho /\ s[i].min = s[i].kmin

\* C37: in the sweeps of a PAY over the stores of a ledger that follows the
\* state machine of a person, a CLOSE is never applied to an owner who is
\* not in the live set: who_remove never fails, also when two clipped
\* intervals of one owner meet at one timestamp.  Stated for the stores in
\* which no record has been overwritten.
C37_CloseOnlyLive ==
  [][\A r \in {rec'} : (PayRead(r) /\ Regular /\ Intact(pdbs) /\ Intact(npdbs)) =>
       /\ SweepSafe(pdbs, r.w0, r.w1)
       /\ \A a \in r.w0..r.w1, b \in r.w0..r.w1 : a < b => SweepSafe(npdbs, a, b)]_vars

\* C38: after any sequence of records the obligation store holds at most one
\* interval per person id, so a BUY divides by the number of persons renting
\* at its date and charges nobody twice.
C38_OneObligationPerId ==
  /\ \A id \in Ids : Cardinality({i \in 1..Len(npdbs) : npdbs[i].who = id}) <= 1
  /\ \A t \in Dates : \A m \in {buy_matches(t)} :
       \A i \in 1..Len(m), j \in 1..Len(m) : m[i].who = m[j].who => i = j

\* C39: after any sequence of records the debt graph has no entry for a pair
\* (a, a): no operation, a TRANSFER from a person to that same person
\* included, makes a debt of a person to themselves, and no output line
\* names one person as debtor and as creditor.
C39_NoSelfDebt ==
  /\ \A k \in DOMAIN gedb : k[1] # k[2]
  /\ \A i \in 1..Len(out) : out[i].debtor # out[i].creditor

\* ------------------------------------------------------- sem-echo claims
\* a line of the input is a record with a date
EchoRecord(l) == l.op \notin {"#", ""} /\ l.date # BadDate

\* where the record to insert belongs: before the first record of the input
\* that is not before it, or after the last line
EchoPlace ==
  IF \E i \in 1..Len(ledger) : EchoRecord(ledger[i]) /\ sscantime(ledger[i].date) >= insert_ts
  THEN CHOOSE i \in 1..Len(ledger) :
         /\ EchoRecord(ledger[i]) /\ sscantime(ledger[i].date) >= insert_ts
         /\ \A j \in 1..(i - 1) :
              ~(EchoRecord(ledger[j]) /\ sscantime(ledger[j].date) >= insert_ts)
  ELSE Len(ledger) + 1

\* the line o of the output is the line l of the input: the same line, or
\* the same record at the same time
EchoSame(o, l) ==
  /\ o.op = l.op
  /\ IF EchoRecord(l) THEN sscantime(o.date) = sscantime(l.date) ELSE o = l

\* the records of the sequence q are in the order of their dates
EchoSorted(q) ==
  \A i \in 1..Len(q), j \in 1..Len(q) :
    (i < j /\ EchoRecord(q[i]) /\ EchoRecord(q[j])) => sscantime(q[i].date) <= sscantime(q[j].date)

\* C40: sem-echo emits every line of the input in the order of the input,
\* and the record to insert once: before the first record, comments and
\* empty lines apart, that is not before it, or after the last line if there
\* is none; so a ledger in the order of its dates stays in that order.
C40_EchoInserts ==
  /\ status = "run" =>
       /\ Cardinality({i \in 1..Len(out) : out[i] = insert}) = finished
       /\ Len(out) = Len(ledger) + finished
  /\ status = "done" =>
       /\ Len(out) = Len(ledger) + 1
       /\ out[EchoPlace] = insert
       /\ Cardinality({i \in 1..Len(out) : out[i] = insert}) = 1
       /\ \A i \in 1..Len(ledger) :
            EchoSame(out[IF i < EchoPlace THEN i ELSE i + 1], ledger[i])
       /\ EchoSorted(ledger) => EchoSorted(out)

\* the record went between two records of the input, after a comment, and a
\* record before it was printed with another text of its date
C40_Witness ==
  /\ status = "done" /\ Len(ledger) = 3
  /\ EchoPlace = 3
  /\ ledger[2].op = "#"
  /\ EchoRecord(ledger[1]) /\ out[1] # ledger[1]
  /\ sscantime(ledger[3].date) = insert_ts
====
